---- MODULE Spec2Model ----
(***************************************************************************)
(* A model of src/search.py: the query parser, the timezone resolver, the  *)
(* time normalizer, the result extractor, the page driver with its         *)
(* pagination loop, and the REPL loop of main.                             *)
(*                                                                         *)
(* Python values of mixed type are tagged so that they can be compared:    *)
(* the int n is <<"int", n>>, the str s is <<"str", s>>.  None (an absent  *)
(* element, an absent return date, an unmapped zone) is the empty tuple.   *)
(* A text displayed by the page is a tuple of its fields, so a time text   *)
(* "10:30 AM" is <<10, 30, "AM">> and a text that is no time is <<"soon">>.*)
(***************************************************************************)
EXTENDS Integers, Sequences, FiniteSets, TLC

\* ---------------------------------------------------------------- bounds

\* The largest number of offer nodes a results view holds.
MaxOffers == 2

\* The largest number of tokens of a line handed to the query parser.
MaxTokens == 5

\* ------------------------------------------------------- Python values

None == <<>>

IntVal(n) == <<"int", n>>

StrVal(s) == <<"str", s>>

NA == StrVal("N/A")

\* ------------------------------------------------- datetime.strptime

IsLeap(y) == (y % 4 = 0 /\ y % 100 # 0) \/ y % 400 = 0

DaysInMonth(m, y) ==
    IF m = 2 THEN (IF IsLeap(y) THEN 29 ELSE 28)
    ELSE IF m \in {4, 6, 9, 11} THEN 30 ELSE 31

\* datetime.strptime(date, '%d-%m-%Y') succeeds: a date is <<dd, mm, yyyy>>.
ValidDate(date) ==
    /\ Len(date) = 3
    /\ date[3] \in 1..9999
    /\ date[2] \in 1..12
    /\ date[1] \in 1..DaysInMonth(date[2], date[3])

\* strptime of '%I:%M %p' succeeds: a 12-hour clock, minutes, AM or PM.
ValidTime(time_str) ==
    /\ Len(time_str) = 3
    /\ time_str[1] \in 1..12
    /\ time_str[2] \in 0..59
    /\ time_str[3] \in {"AM", "PM"}

\* Leap days before 1 January of year y, counted from year 1.
LeapsBefore(y) == ((y - 1) \div 4) - ((y - 1) \div 100) + ((y - 1) \div 400)

RECURSIVE DaysBeforeMonth(_, _)
DaysBeforeMonth(m, y) ==
    IF m = 1 THEN 0 ELSE DaysBeforeMonth(m - 1, y) + DaysInMonth(m - 1, y)

\* Days from 1970-01-01 to the date.
DaysFromEpoch(date) ==
    (date[3] - 1970) * 365 + (LeapsBefore(date[3]) - LeapsBefore(1970))
        + DaysBeforeMonth(date[2], date[3]) + (date[1] - 1)

\* Minutes after midnight of a valid '%I:%M %p' time.
MinutesOfDay(time_str) ==
    ((time_str[1] % 12) + (IF time_str[3] = "PM" THEN 12 ELSE 0)) * 60 + time_str[2]

\* ------------------------------------------------------ pytz.timezone

\* The zones the model's geography maps to; pytz.timezone raises on any
\* other argument, None included.
KnownZones == {StrVal("UTC"), StrVal("America/New_York")}

\* Minutes east of UTC, in standard time (the model's dates are in winter).
UtcOffsetMinutes(timezone) ==
    IF timezone = StrVal("America/New_York") THEN 0 - 300 ELSE 0

\* ------------------------------------------------ convert_to_utc_epoch

\* The epoch convert_to_utc_epoch returns when nothing raises.
UnixEpoch(date_str, time_str, timezone) ==
    DaysFromEpoch(date_str) * 86400
        + (MinutesOfDay(time_str) - UtcOffsetMinutes(timezone)) * 60

\* The value returned by the except branch of convert_to_utc_epoch.
ConvertFailureValue == IntVal(0)

\* convert_to_utc_epoch: the epoch, or the except branch's value when
\* strptime or pytz.timezone raises.
convert_to_utc_epoch(date_str, time_str, timezone) ==
    IF ValidDate(date_str) /\ ValidTime(time_str) /\ timezone \in KnownZones
    THEN IntVal(UnixEpoch(date_str, time_str, timezone))
    ELSE ConvertFailureValue

\* ------------------------------------------- get_timezone_from_airport

\* What geolocator.geocode does: it finds a location, finds none, or raises
\* because the service cannot be reached.
GeocodeOutcomes == {"found", "no_match", "unreachable"}

\* What tf.timezone_at returns for a location: a zone name, or None.
ZoneLookups == KnownZones \cup {None}

\* get_timezone_from_airport on the geocoder's outcome and the zone the
\* finder maps the location to: [raised, value].
get_timezone_from_airport(geocode, zone) ==
    IF geocode = "unreachable" THEN [raised |-> TRUE, value |-> None]
    ELSE IF geocode = "found" THEN [raised |-> FALSE, value |-> zone]
    ELSE [raised |-> FALSE, value |-> StrVal("UTC")]

\* -------------------------------------------------- scrape_flight_details

\* An offer node of the results view: each sub-element is None or <<text>>;
\* raises tells whether a lookup or a text read on the node raises.
OfferNode(time, airline, duration, price, raises) ==
    [time_element |-> time, airline_element |-> airline,
     duration_element |-> duration, price_element |-> price, raises |-> raises]

\* element.inner_text() if element else "N/A", for a time element: a text.
TimeText(element) == IF element # None THEN element[1] ELSE <<"N/A">>

\* element.inner_text() if element else "N/A", for the other elements.
FieldText(element) == IF element # None THEN element[1] ELSE "N/A"

\* The time of the offer: the epoch when the time text is available.
TimeEpoch(time_str, flight_date, timezone) ==
    IF time_str # <<"N/A">>
    THEN convert_to_utc_epoch(flight_date, time_str, timezone)
    ELSE NA

\* The try block completes for the node as if a text were read from None.
ExtractsUnguarded(node) ==
    /\ ~node.raises
    /\ node.time_element # None
    /\ node.airline_element # None
    /\ node.duration_element # None
    /\ node.price_element # None

\* The try block of the loop body completes for the node.
Extracts(node) == ~node.raises

\* The dictionary appended for a node.
ExtractOffer(node, flight_date, timezone) ==
    [time |-> TimeEpoch(TimeText(node.time_element), flight_date, timezone),
     airline |-> FieldText(node.airline_element),
     duration |-> FieldText(node.duration_element),
     price |-> FieldText(node.price_element)]

\* The extraction with its try around the whole loop: the first node that
\* raises ends it.
RECURSIVE ScrapeUntilRaise(_, _, _)
ScrapeUntilRaise(flights, flight_date, timezone) ==
    IF flights = <<>> \/ ~Extracts(Head(flights)) THEN <<>>
    ELSE <<ExtractOffer(Head(flights), flight_date, timezone)>>
         \o ScrapeUntilRaise(Tail(flights), flight_date, timezone)

RECURSIVE scrape_flight_details(_, _, _)
scrape_flight_details(flights, flight_date, timezone) ==
    IF flights = <<>> THEN <<>>
    ELSE (IF Extracts(Head(flights))
          THEN <<ExtractOffer(Head(flights), flight_date, timezone)>>
          ELSE <<>>)
         \o scrape_flight_details(Tail(flights), flight_date, timezone)

\* ------------------------------------------------------------ parse_query

\* A query line is the tuple of its tokens, separated by single spaces:
\* <<"w", s>> is a run of word characters s, <<"d", dd, mm, yyyy>> is a
\* token of the form \d{2}-\d{2}-\d{4}, <<"dx", dd, mm, yyyy>> is such a
\* form with more characters after it, <<"x">> is any other token.
IsWord(token) == token[1] = "w"

\* The token is of the form \d{2}-\d{2}-\d{4} to its end.
IsDateForm(token) == token[1] = "d"

\* The token starts with the form \d{2}-\d{2}-\d{4}.
StartsWithDateForm(token) == token[1] \in {"d", "dx"}

DateOf(token) == <<token[2], token[3], token[4]>>

\* re.match(pattern, query): the pattern is anchored at the start of the
\* line only, and its fourth group is optional.
PatternMatches(line) ==
    /\ Len(line) >= 3
    /\ IsWord(line[1])
    /\ IsWord(line[2])
    /\ StartsWithDateForm(line[3])

\* match.group(4) if match.group(4) else None: the optional group needs a
\* space right after the third group and then the start of a date form.
Group4(line) ==
    IF Len(line) >= 4 /\ IsDateForm(line[3]) /\ StartsWithDateForm(line[4])
    THEN DateOf(line[4]) ELSE None

\* parse_query: None, or <<from_city, to_city, departure_date, return_date>>.
parse_query(line) ==
    IF ~PatternMatches(line) THEN None
    ELSE IF ~ValidDate(DateOf(line[3])) THEN None
    ELSE IF Group4(line) # None /\ ~ValidDate(Group4(line)) THEN None
    ELSE <<line[1][2], line[2][2], DateOf(line[3]), Group4(line)>>

\* ------------------------------------------------------------------ state

VARIABLES
    pc,                     \* the position of main's control flow
    exc,                    \* the exception that left main, "none" before
    browserOpen,            \* the browser process launched at line 275 lives
    pageOpen,               \* the page of line 276 is open
    url,                    \* page.url: "blank", "flights" or "consent"
    view,                   \* what the page shows: form, outbound, returns, other
    outNodes,               \* the outbound offer nodes of the loaded results
    shown,                  \* the outbound index whose returns the page shows
    parsed_query,           \* main: parsed_query
    assigned,               \* main: the result locals that are bound
    return_date,            \* main: return_date
    departing_flight_data,  \* main: departing_flight_data
    returning_flight_data,  \* main: returning_flight_data
    printed,                \* what the last Flights listing printed
    timezone,               \* search_and_scrape_flights: timezone
    step,                   \* the next control of the criteria entry
    departing,              \* search_and_scrape_flights: departing_flight_data
    returning,              \* search_and_scrape_flights: returning_flight_data
    nDeparting,             \* len(departing_flights) of line 210
    index,                  \* the loop variable of line 210
    attempts,               \* the indices whose iteration has started
    failed,                 \* the indices whose iteration raised
    geo,                    \* the geocoder's outcome and the zone looked up
    query,                  \* main: query, the line read at the prompt
    acts,                   \* what the page driver has done in this search
    consent_handled,        \* handle_consent ran after the last page.goto
    flightsFresh,           \* departing_flights was queried after the last click
    staleClick              \* a click has used a handle queried before a click

vars == <<pc, exc, browserOpen, pageOpen, url, view, outNodes, shown,
          parsed_query, assigned, return_date, departing_flight_data,
          returning_flight_data, printed, timezone, step, departing,
          returning, nDeparting, index, attempts, failed, geo, query,
          acts, consent_handled, flightsFresh, staleClick>>

handleVars == <<flightsFresh, staleClick>>

pageVars == <<url, view, outNodes, shown>>

mainVars == <<parsed_query, assigned, return_date, departing_flight_data,
              returning_flight_data, printed>>

searchVars == <<timezone, step, departing, returning, nDeparting, index>>

loopVars == <<attempts, failed>>

\* ------------------------------------------------------------- the inputs

D1 == <<1, 12, 2025>>

D2 == <<5, 12, 2025>>

\* The line "JFK LAX 01-12-2025".
D1Line == <<<<"w", "JFK">>, <<"w", "LAX">>, <<"d", 1, 12, 2025>>>>

\* The lines typed at the prompt of the session.
QueryLines ==
    { <<<<"w", "exit">>>>,
      <<<<"w", "JFK">>, <<"w", "LAX">>, <<"d", 1, 12, 2025>>>>,
      <<<<"w", "JFK">>, <<"w", "LAX">>, <<"d", 1, 12, 2025>>, <<"d", 5, 12, 2025>>>>,
      <<<<"w", "JFK">>, <<"w", "LAX">>, <<"d", 31, 2, 2025>>>>,
      <<<<"w", "JFK">>, <<"w", "LAX">>>> }

\* The line read before any is read.
NoLine == <<>>

\* query == "exit"
IsExit(line) == line = <<<<"w", "exit">>>>

\* The offer nodes of the session's result pages.
NoPriceNode == OfferNode(<<<<10, 30, "AM">>>>, <<"AA">>, <<"5 hr">>, None, FALSE)

RaisingNode == OfferNode(<<<<10, 30, "AM">>>>, <<"AA">>, <<"5 hr">>, <<"$100">>, TRUE)

SessionNodes == {NoPriceNode, RaisingNode}

\* The sequences over S of length at most n.
RECURSIVE SeqsUpTo(_, _)
SeqsUpTo(S, n) ==
    IF n = 0 THEN {<<>>}
    ELSE LET shorter == SeqsUpTo(S, n - 1)
         IN  shorter \cup {Append(q, x) : q \in shorter, x \in S}

OutboundLists == SeqsUpTo(SessionNodes, MaxOffers)

\* The price text the page shows on the return offers of outbound i.
ReturnPrice(i) == <<"r0", "r1", "r2", "r3">>[i + 1]

\* The return offers the page shows once outbound offer i is selected.
ReturnNodes(i) ==
    <<OfferNode(<<<<11, 45, "PM">>>>, <<"BA">>, <<"6 hr">>, <<ReturnPrice(i)>>, FALSE)>>

\* page.query_selector_all('.pIav2d'): the offer nodes the page shows now.
PageOffers ==
    IF view = "outbound" THEN outNodes
    ELSE IF view = "returns" THEN ReturnNodes(shown)
    ELSE <<>>

\* ------------------------------------------------------------------- main

NoExc == [type |-> "none", at |-> "none"]

NoGeo == [geocode |-> "none", zone |-> None]

Init ==
    /\ pc = "start"
    /\ exc = NoExc
    /\ browserOpen = TRUE
    /\ pageOpen = TRUE
    /\ url = "blank"
    /\ view = "form"
    /\ outNodes = <<>>
    /\ shown = 0
    /\ parsed_query = None
    /\ assigned = {}
    /\ return_date = None
    /\ departing_flight_data = <<>>
    /\ returning_flight_data = <<>>
    /\ printed = <<>>
    /\ timezone = None
    /\ step = 0
    /\ departing = <<>>
    /\ returning = <<>>
    /\ nDeparting = 0
    /\ index = 0
    /\ attempts = <<>>
    /\ failed = {}
    /\ geo = NoGeo
    /\ query = NoLine
    /\ acts = <<>>
    /\ consent_handled = FALSE
    /\ flightsFresh = FALSE
    /\ staleClick = FALSE

\* The browser lives on after main is left only if nothing stops the
\* driver on a raised exception.
BrowserAfterExitUnscoped(how) == how = "exception"

\* Leaving the with block of line 274, by break or by an exception, stops
\* the driver and with it the browser: the browser does not live on.
BrowserAfterExit(how) == FALSE

\* An exception that nothing in main catches leaves the with block.
Raise(type, at) ==
    /\ pc' = "crashed"
    /\ exc' = [type |-> type, at |-> at]
    /\ browserOpen' = BrowserAfterExit("exception")
    /\ pageOpen' = FALSE

\* page.goto of line 277: the site answers with its form or a consent page.
GotoStart ==
    /\ pc = "start"
    /\ \E u \in {"flights", "consent"} : url' = u
    /\ pc' = "consent"
    /\ consent_handled' = FALSE
    /\ UNCHANGED <<exc, browserOpen, pageOpen, view, outNodes, shown,
                   mainVars, searchVars, loopVars, geo, query, acts,
                   handleVars>>

\* handle_consent, called at line 279.
HandleConsent ==
    /\ pc = "consent"
    /\ IF url = "consent"
       THEN \E consent_button \in BOOLEAN :
                url' = IF consent_button THEN "flights" ELSE url
       ELSE url' = url
    /\ pc' = "prompt"
    /\ consent_handled' = TRUE
    /\ UNCHANGED <<exc, browserOpen, pageOpen, view, outNodes, shown,
                   mainVars, searchVars, loopVars, geo, query, acts,
                   handleVars>>

\* Lines 282-285 and 311: the exit command.
Exit ==
    /\ pc = "prompt"
    /\ \E line \in QueryLines : IsExit(line) /\ query' = line
    /\ pc' = "exited"
    /\ pageOpen' = FALSE
    /\ browserOpen' = BrowserAfterExit("break")
    /\ UNCHANGED <<exc, pageVars, mainVars, searchVars, loopVars, geo, acts,
                   consent_handled, handleVars>>

\* Lines 282-297 for a line that is not the exit command: it is parsed,
\* and unpacked when parse_query returns a tuple.
ReadLine(line) ==
    /\ pc = "prompt"
    /\ ~IsExit(line)
    /\ query' = line
    /\ parsed_query' = parse_query(line)
    /\ IF parse_query(line) # None
       THEN /\ return_date' = parse_query(line)[4]
            /\ assigned' = assigned \cup {"return_date"}
            /\ pc' = "timezone"
       ELSE /\ UNCHANGED <<return_date, assigned>>
            /\ pc' = "print"
    /\ UNCHANGED <<exc, browserOpen, pageOpen, pageVars, departing_flight_data,
                   returning_flight_data, printed, searchVars, loopVars, geo,
                   acts, consent_handled, handleVars>>

\* Lines 282-297: a line of the session is read and parsed.
ReadQuery == \E line \in QueryLines : ReadLine(line)

\* ---------------------------------------------- search_and_scrape_flights

\* Line 152: the timezone of the departure city.
ResolveTimezone ==
    /\ pc = "timezone"
    /\ \E g \in GeocodeOutcomes, z \in ZoneLookups :
        /\ g # "found" => z = None
        /\ geo' = [geocode |-> g, zone |-> z]
        /\ IF get_timezone_from_airport(g, z).raised
           THEN /\ Raise("GeocoderUnavailable", "geocode")
                /\ UNCHANGED <<timezone, step>>
           ELSE /\ timezone' = get_timezone_from_airport(g, z).value
                /\ step' = 1
                /\ pc' = "criteria"
                /\ UNCHANGED <<exc, browserOpen, pageOpen>>
    /\ UNCHANGED <<pageVars, mainVars, departing, returning, nDeparting,
                   index, loopVars, query, acts, consent_handled, handleVars>>

\* The controls in an order that enters the departure date before the
\* trip type is switched.
CriteriaStepsDateFirst(ret) ==
    <<"from_field", "to_field", "departure_field", "departure_done">>
        \o (IF ret = None THEN <<"trip_type_button", "one_way_button">> ELSE <<>>)
        \o (IF ret # None THEN <<"return_field", "return_done">> ELSE <<>>)
        \o <<"search_button">>

\* The page-level controls lines 154-199 look up, in the order of the code.
CriteriaSteps(ret) ==
    <<"from_field", "to_field">>
        \o (IF ret = None THEN <<"trip_type_button", "one_way_button">> ELSE <<>>)
        \o <<"departure_field", "departure_done">>
        \o (IF ret # None THEN <<"return_field", "return_done">> ELSE <<>>)
        \o <<"search_button">>

\* What a missing control raises: [0] of an empty list, or .click() of None.
NotFoundError(control) ==
    IF control \in {"from_field", "to_field", "departure_field", "return_field"}
    THEN "IndexError" ELSE "AttributeError"

\* Lines 154-199: the next control is looked up and, when found, used.
EnterControl ==
    /\ pc = "criteria"
    /\ LET steps == CriteriaSteps(return_date)
           control == steps[step]
       IN  \E found \in BOOLEAN :
            /\ found => url = "flights"
            /\ IF ~found
               THEN /\ Raise(NotFoundError(control), control)
                    /\ UNCHANGED <<step, acts>>
               ELSE /\ step' = step + 1
                    /\ acts' = Append(acts, control)
                    /\ pc' = IF step = Len(steps) THEN "wait_results" ELSE "criteria"
                    /\ UNCHANGED <<exc, browserOpen, pageOpen>>
    /\ UNCHANGED <<pageVars, mainVars, timezone, departing, returning,
                   nDeparting, index, loopVars, geo, query, consent_handled,
                   handleVars>>

\* Line 200: the bounded wait for the results marker.
WaitResults ==
    /\ pc = "wait_results"
    /\ \E visible \in BOOLEAN :
        IF ~visible
        THEN /\ Raise("TimeoutError", "results_marker")
             /\ UNCHANGED <<view, outNodes, acts>>
        ELSE /\ view' = "outbound"
             /\ acts' = Append(acts, "results_marker")
             /\ \E nodes \in OutboundLists : outNodes' = nodes
             /\ pc' = "scrape_departing"
             /\ UNCHANGED <<exc, browserOpen, pageOpen>>
    /\ UNCHANGED <<url, shown, mainVars, searchVars, loopVars, geo, query,
                   consent_handled, handleVars>>

\* The loop over the departing flights runs for every search.
DrillsDownAlways(ret) == TRUE

\* Line 207: if return_date.
DrillsDown(ret) == ret # None

\* Lines 203-210: the outbound offers are scraped and the loop is set up.
ScrapeDeparting ==
    /\ pc = "scrape_departing"
    /\ departing' = scrape_flight_details(PageOffers, parsed_query[3], timezone)
    /\ returning' = <<>>
    /\ flightsFresh' = IF DrillsDown(return_date) THEN TRUE ELSE flightsFresh
    /\ IF DrillsDown(return_date)
       THEN /\ nDeparting' = Len(PageOffers)
            /\ index' = 0
            /\ pc' = "loop_head"
       ELSE /\ UNCHANGED <<nDeparting, index>>
            /\ pc' = "return"
    /\ UNCHANGED <<exc, browserOpen, pageOpen, pageVars, mainVars, timezone,
                   step, loopVars, geo, query, acts, consent_handled,
                   staleClick>>

\* The index after an iteration when one raising iteration ends the loop.
AfterIterationAbort(i, n, raised) == IF raised THEN n ELSE i + 1

\* The value of range(len(departing_flights)) after the iteration of i: the
\* except clauses of lines 224-227 are inside the loop body.
AfterIteration(i, n, raised) == i + 1

\* Lines 224-227: the iteration raised; the exception is printed.
IterationFails ==
    /\ failed' = failed \cup {index}
    /\ index' = AfterIteration(index, nDeparting, TRUE)
    /\ pc' = "loop_head"

\* Line 210: the next index of the range.
LoopNext ==
    /\ pc = "loop_head"
    /\ index < nDeparting
    /\ attempts' = Append(attempts, index)
    /\ pc' = "click"
    /\ UNCHANGED <<exc, browserOpen, pageOpen, pageVars, mainVars, searchVars,
                   failed, geo, query, acts, consent_handled, handleVars>>

\* Line 210: the range is exhausted.
LoopEnd ==
    /\ pc = "loop_head"
    /\ index >= nDeparting
    /\ pc' = "return"
    /\ UNCHANGED <<exc, browserOpen, pageOpen, pageVars, mainVars, searchVars,
                   loopVars, geo, query, acts, consent_handled, handleVars>>

\* The handles of line 209 are kept: they are as fresh as they were.
RequeryCached(fresh) == fresh

\* Line 211: departing_flights is queried again at the start of the
\* iteration, so its handles are those of the page as it is now.
Requery(fresh) == TRUE

\* Lines 211-213: the offers are queried again and the one at index clicked.
ClickOffer ==
    /\ pc = "click"
    /\ IF index >= Len(PageOffers)
       THEN /\ IterationFails
            /\ flightsFresh' = Requery(flightsFresh)
            /\ UNCHANGED <<view, shown, staleClick>>
       ELSE \E clicked \in BOOLEAN :
            /\ staleClick' = (staleClick \/ ~Requery(flightsFresh))
            /\ IF clicked
               THEN /\ view' = IF view = "outbound" THEN "returns" ELSE "other"
                    /\ shown' = IF view = "outbound" THEN index ELSE shown
                    /\ flightsFresh' = FALSE
                    /\ pc' = "wait_returns"
                    /\ UNCHANGED <<index, failed>>
               ELSE /\ IterationFails
                    /\ flightsFresh' = Requery(flightsFresh)
                    /\ UNCHANGED <<view, shown>>
    /\ UNCHANGED <<exc, browserOpen, pageOpen, url, outNodes, mainVars,
                   timezone, step, departing, returning, nDeparting, attempts, geo,
                   query, acts, consent_handled>>

\* Line 214: the bounded wait for the marker after the click.
WaitReturns ==
    /\ pc = "wait_returns"
    /\ \E visible \in BOOLEAN :
        IF visible
        THEN /\ pc' = "scrape_returns"
             /\ UNCHANGED <<index, failed>>
        ELSE IterationFails
    /\ UNCHANGED <<exc, browserOpen, pageOpen, pageVars, mainVars, timezone,
                   step, departing, returning, nDeparting, attempts, geo,
                   query, acts, consent_handled, handleVars>>

\* Line 217: the offers the page shows are scraped and appended.
ScrapeReturns ==
    /\ pc = "scrape_returns"
    /\ returning' =
         Append(returning, scrape_flight_details(PageOffers, return_date,
                   timezone))
    /\ pc' = "next_button"
    /\ UNCHANGED <<exc, browserOpen, pageOpen, pageVars, mainVars, timezone,
                   step, departing, nDeparting, index, loopVars, geo, query,
                   acts, consent_handled, handleVars>>

\* Lines 220-223: the advance control, when present, is clicked.
NextButton ==
    /\ pc = "next_button"
    /\ \E next_button \in {"absent", "clicked", "click_raises"} :
        IF next_button = "click_raises"
        THEN /\ IterationFails
             /\ flightsFresh' = FALSE
             /\ UNCHANGED view
        ELSE /\ view' = IF next_button = "clicked" THEN "outbound" ELSE view
             /\ flightsFresh' = (flightsFresh /\ next_button = "absent")
             /\ index' = AfterIteration(index, nDeparting, FALSE)
             /\ pc' = "loop_head"
             /\ UNCHANGED failed
    /\ UNCHANGED <<exc, browserOpen, pageOpen, url, outNodes, shown, mainVars,
                   timezone, step, departing, returning, nDeparting, attempts,
                   geo, query, acts, consent_handled, staleClick>>

\* Lines 229 and 291-293: the two lists are returned and bound in main.
Return ==
    /\ pc = "return"
    /\ departing_flight_data' = departing
    /\ returning_flight_data' = returning
    /\ assigned' = assigned \cup {"departing_flight_data",
                   "returning_flight_data"}
    /\ timezone' = None
    /\ step' = 0
    /\ departing' = <<>>
    /\ returning' = <<>>
    /\ nDeparting' = 0
    /\ index' = 0
    /\ flightsFresh' = FALSE
    /\ pc' = "print"
    /\ UNCHANGED <<exc, browserOpen, pageOpen, pageVars, parsed_query,
                   return_date, printed, loopVars, geo, query, acts,
                   consent_handled, staleClick>>

\* ------------------------------------------------- main: the Flights listing

\* The first n entries of the listing of lines 301-307: each departing
\* flight, and under it its returning flights when return_date is set.
Listing(n) ==
    [i \in 1..n |->
        [departing |-> departing_flight_data[i],
         returning |-> IF return_date # None
                       THEN returning_flight_data[i] ELSE <<>>]]

\* The entries lines 301-307 can print before an index is out of range.
Printable ==
    IF return_date # None /\ Len(returning_flight_data) < Len(departing_flight_data)
    THEN Len(returning_flight_data)
    ELSE Len(departing_flight_data)

\* Lines 299-307: the results are printed.
PrintResults ==
    /\ pc = "print"
    /\ IF "departing_flight_data" \notin assigned
       THEN /\ Raise("UnboundLocalError", "departing_flight_data")
            /\ UNCHANGED printed
       ELSE /\ printed' = Listing(Printable)
            /\ IF Printable < Len(departing_flight_data)
               THEN Raise("IndexError", "returning_flight_data")
               ELSE /\ pc' = "goto"
                    /\ UNCHANGED <<exc, browserOpen, pageOpen>>
    /\ UNCHANGED <<pageVars, parsed_query, assigned, return_date,
                   departing_flight_data, returning_flight_data, searchVars,
                   loopVars, geo, query, acts, consent_handled, handleVars>>

\* Line 309: the page goes back to the search URL for the next query.
GotoNext ==
    /\ pc = "goto"
    /\ \E u \in {"flights", "consent"} : url' = u
    /\ view' = "form"
    /\ outNodes' = <<>>
    /\ shown' = 0
    /\ attempts' = <<>>
    /\ failed' = {}
    /\ geo' = NoGeo
    /\ acts' = <<>>
    /\ flightsFresh' = FALSE
    /\ staleClick' = FALSE
    /\ consent_handled' = FALSE
    /\ pc' = "prompt"
    /\ UNCHANGED <<exc, browserOpen, pageOpen, mainVars, searchVars, query>>

Next ==
    \/ GotoStart
    \/ HandleConsent
    \/ Exit
    \/ ReadQuery
    \/ ResolveTimezone
    \/ EnterControl
    \/ WaitResults
    \/ ScrapeDeparting
    \/ LoopNext
    \/ LoopEnd
    \/ ClickOffer
    \/ WaitReturns
    \/ ScrapeReturns
    \/ NextButton
    \/ Return
    \/ PrintResults
    \/ GotoNext

Spec == Init /\ [][Next]_vars

\* --------------------------------------- the result extractor on its inputs

\* The sub-elements a node of a results view can hold.
TimeElements == {None, <<<<10, 30, "AM">>>>, <<<<13, 30, "PM">>>>, <<<<"soon">>>>}

AirlineElements == {None, <<"AA">>}

DurationElements == {None, <<"5 hr">>}

PriceElements == {None, <<"$100">>}

ExtractNodes ==
    {OfferNode(t, a, d, p, FALSE) :
        t \in TimeElements, a \in AirlineElements,
        d \in DurationElements, p \in PriceElements}
    \cup {RaisingNode}

\* A search at line 203, before the loaded results view is scraped: the
\* view holds any list of nodes and the timezone is any the resolver gives.
InitExtract ==
    /\ pc = "scrape_departing"
    /\ exc = NoExc
    /\ browserOpen = TRUE
    /\ pageOpen = TRUE
    /\ url = "flights"
    /\ view = "outbound"
    /\ outNodes \in SeqsUpTo(ExtractNodes, MaxOffers)
    /\ shown = 0
    /\ parsed_query = <<"JFK", "LAX", D1, None>>
    /\ assigned = {"return_date"}
    /\ return_date = None
    /\ departing_flight_data = <<>>
    /\ returning_flight_data = <<>>
    /\ printed = <<>>
    /\ timezone \in ZoneLookups
    /\ step = Len(CriteriaSteps(None)) + 1
    /\ departing = <<>>
    /\ returning = <<>>
    /\ nDeparting = 0
    /\ index = 0
    /\ attempts = <<>>
    /\ failed = {}
    /\ geo = NoGeo
    /\ query = D1Line
    /\ acts = CriteriaSteps(None) \o <<"results_marker">>
    /\ consent_handled = TRUE
    /\ flightsFresh = FALSE
    /\ staleClick = FALSE

SpecExtract == InitExtract /\ [][ScrapeDeparting]_vars

\* ----------------------------------------- the query parser on its inputs

\* The tokens of the lines: two words, two valid dates, a date that is
\* not in the calendar, a date form with text after it, and another token.
LineTokens ==
    { <<"w", "JFK">>, <<"w", "LAX">>, <<"d", 1, 12, 2025>>, <<"d", 5, 12, 2025>>,
      <<"d", 31, 2, 2025>>, <<"dx", 1, 12, 2025>>, <<"x">> }

\* main at its first prompt, on the search form.
InitParse ==
    /\ pc = "prompt"
    /\ exc = NoExc
    /\ browserOpen = TRUE
    /\ pageOpen = TRUE
    /\ url = "flights"
    /\ view = "form"
    /\ outNodes = <<>>
    /\ shown = 0
    /\ parsed_query = None
    /\ assigned = {}
    /\ return_date = None
    /\ departing_flight_data = <<>>
    /\ returning_flight_data = <<>>
    /\ printed = <<>>
    /\ timezone = None
    /\ step = 0
    /\ departing = <<>>
    /\ returning = <<>>
    /\ nDeparting = 0
    /\ index = 0
    /\ attempts = <<>>
    /\ failed = {}
    /\ geo = NoGeo
    /\ query = NoLine
    /\ acts = <<>>
    /\ consent_handled = TRUE
    /\ flightsFresh = FALSE
    /\ staleClick = FALSE

\* Lines 282-297 on any line of at most MaxTokens tokens.
ReadAnyLine == \E line \in SeqsUpTo(LineTokens, MaxTokens) : ReadLine(line)

SpecParse == InitParse /\ [][ReadAnyLine]_vars

\* ------------------------------------------------------------- the claims

\* The indices 0 .. n-1 in increasing order.
UpTo(n) == [i \in 1..n |-> i - 1]

\* The positions of the code inside one iteration of the loop of line 210.
InIteration == pc \in {"click", "wait_returns", "scrape_returns", "next_button"}

\* C1: when a round-trip search returns, its returns-collection has one
\* entry per outbound offer; entry i holds the returns the page shows for
\* outbound i, and is empty when the iteration of index i raised.
C1_ReturnsAlignedWithOutbound ==
    (pc = "return" /\ return_date # None) =>
        /\ Len(returning) = nDeparting
        /\ \A i \in 0..(nDeparting - 1) :
            returning[i + 1] =
                IF i \in failed THEN <<>>
                ELSE scrape_flight_details(ReturnNodes(i), return_date, timezone)

\* C2: the loop attempts the indices 0 .. K-1 once each and in increasing
\* order, whatever iterations raise: at the head of the loop the indices
\* attempted are exactly those below the loop variable, inside an iteration
\* they are those up to it, and when the search returns they are 0 .. K-1.
C2_EveryIndexAttemptedOnce ==
    /\ pc = "loop_head" => (index <= nDeparting /\ attempts = UpTo(index))
    /\ InIteration => (index < nDeparting /\ attempts = UpTo(index + 1))
    /\ (pc = "return" /\ return_date # None) => attempts = UpTo(nDeparting)

\* C2's case: a search of two outbound offers returns after an iteration
\* raised, with both indices attempted.
C2_Witness ==
    /\ pc = "return"
    /\ nDeparting = 2
    /\ failed # {}
    /\ attempts = <<0, 1>>

\* C3: after a search in which an iteration raised, the listing prints an
\* entry for every outbound offer and main goes on to the next prompt.
C3_IterationFailureNotFatal ==
    [][(pc = "print" /\ failed # {}) =>
          (pc' = "goto" /\ Len(printed') = Len(departing_flight_data))]_vars

\* C4: when the results marker does not become visible, the search is
\* abandoned, the browser stays open and main goes on to the next prompt.
C4_ResultsTimeoutKeepsSession ==
    [][(pc = "wait_results" /\ pc' # "scrape_departing") =>
          (browserOpen' /\ pc' \in {"print", "goto", "prompt"})]_vars

\* C5: when a page-level control is not found during criteria entry, the
\* search is abandoned and main goes on to the next prompt.
C5_MissingControlKeepsSession ==
    [][(pc = "criteria" /\ pc' \notin {"criteria", "wait_results"}) =>
          (browserOpen' /\ pc' \in {"print", "goto", "prompt"})]_vars

\* C6: after an invalid line, wherever in the session it is entered, main
\* reports it and goes on to the next prompt.
C6_InvalidLineReachesPrompt ==
    [][(pc = "print" /\ parsed_query = None) => pc' = "goto"]_vars

\* C7: once main is left, by the exit command or by an exception, the
\* browser acquired at startup is closed.
C7_BrowserClosedOnExit ==
    pc \in {"exited", "crashed"} => ~browserOpen

\* C7's case: an exception raised during a search has left main.
C7_Witness ==
    /\ pc = "crashed"
    /\ exc = [type |-> "TimeoutError", at |-> "results_marker"]
    /\ ~browserOpen

\* The resolver's three failure cases.
ResolutionFails ==
    \/ geo.geocode = "no_match"
    \/ geo.geocode = "unreachable"
    \/ (geo.geocode = "found" /\ geo.zone = None)

\* C8: in each failure case the resolver raises nothing and the search goes
\* on with the timezone "UTC".
C8_ResolverFallsBackToUTC ==
    ResolutionFails =>
        /\ exc.at # "geocode"
        /\ pc = "criteria" => timezone = StrVal("UTC")

\* The value of a field whose sub-element is absent or holds a text.
FieldAsExtracted(element) == IF element = None THEN "N/A" ELSE element[1]

\* The result view that was scraped holds no node whose extraction raises.
AllExtract == \A i \in 1..Len(outNodes) : ~outNodes[i].raises

\* C9: the extractor returns one offer per node, in display order; an
\* absent sub-element makes that field, and only it, the unavailable value.
C9_AbsentFieldDegradesAlone ==
    (pc = "return" /\ AllExtract) =>
        /\ Len(departing) = Len(outNodes)
        /\ \A i \in 1..Len(outNodes) :
            /\ departing[i].airline = FieldAsExtracted(outNodes[i].airline_element)
            /\ departing[i].duration = FieldAsExtracted(outNodes[i].duration_element)
            /\ departing[i].price = FieldAsExtracted(outNodes[i].price_element)
            /\ (outNodes[i].time_element = None) <=> (departing[i].time = NA)
            /\ (outNodes[i].time_element # None) =>
                departing[i].time =
                    convert_to_utc_epoch(parsed_query[3], outNodes[i].time_element[1],
                                         timezone)

\* C9's case: two nodes were scraped, the first without a price and the
\* second without a time, and each lost that field alone.
C9_Witness ==
    /\ pc = "return"
    /\ Len(outNodes) = 2
    /\ outNodes[1] = NoPriceNode
    /\ outNodes[2].time_element = None
    /\ outNodes[2].price_element # None
    /\ Len(departing) = 2
    /\ departing[1].price = "N/A"
    /\ departing[1].airline = "AA"
    /\ departing[2].time = NA
    /\ departing[2].price = "$100"

\* C10: an offer whose time text is present and cannot be parsed gets the
\* unavailable value as its time, which is no epoch number, and keeps its
\* airline, duration and price.
C10_UnparseableTimeIsUnavailable ==
    (pc = "return" /\ AllExtract) =>
        \A i \in 1..Len(outNodes) :
            (outNodes[i].time_element # None
                /\ ~ValidTime(outNodes[i].time_element[1])) =>
                    /\ Len(departing) = Len(outNodes)
                    /\ departing[i].time = NA
                    /\ departing[i].airline = FieldAsExtracted(outNodes[i].airline_element)
                    /\ departing[i].duration = FieldAsExtracted(outNodes[i].duration_element)
                    /\ departing[i].price = FieldAsExtracted(outNodes[i].price_element)

\* The line is, in full, <origin> <destination> <DD-MM-YYYY> [DD-MM-YYYY]
\* with dates of the calendar.
WellFormedLine(line) ==
    /\ Len(line) \in {3, 4}
    /\ line[1][1] = "w"
    /\ line[2][1] = "w"
    /\ \A k \in 3..Len(line) :
        /\ line[k][1] = "d"
        /\ line[k][2] \in 1..DaysInMonth(line[k][3], line[k][4])
        /\ line[k][3] \in 1..12

\* C11: parse_query returns no result for every line that is not, in full,
\* of the form <origin> <destination> <DD-MM-YYYY> [DD-MM-YYYY] with valid
\* calendar dates.
C11_RejectsEveryOtherLine ==
    (query # NoLine /\ ~WellFormedLine(query)) => parsed_query = None

\* The date a is earlier than the date b.
Earlier(a, b) ==
    \/ a[3] < b[3]
    \/ (a[3] = b[3] /\ a[2] < b[2])
    \/ (a[3] = b[3] /\ a[2] = b[2] /\ a[1] < b[1])

\* C12: the request main hands to the search has a return date, when it
\* has one, that is not earlier than its departure date.
C12_ReturnNotBeforeDeparture ==
    (pc = "timezone" /\ parsed_query[4] # None) =>
        ~Earlier(parsed_query[4], parsed_query[3])

\* C13: a search without a return date starts no iteration of the loop,
\* clicks no outbound offer, and returns an empty returns-collection.
C13_OneWayNoDrillDown ==
    return_date = None =>
        /\ pc \notin {"loop_head", "click", "wait_returns", "scrape_returns",
                      "next_button"}
        /\ attempts = <<>>
        /\ pc = "return" => returning = <<>>

\* C13's case: a one-way search whose results view held two offers returns.
C13_Witness ==
    /\ pc = "return"
    /\ return_date = None
    /\ Len(outNodes) = 2
    /\ Len(departing) >= 1
    /\ returning = <<>>
    /\ attempts = <<>>

\* C14: when an iteration of the loop is about to query and click the offer
\* at its index, the page shows the outbound list, so the offer clicked is
\* the outbound offer of that index.
C14_IterationStartsOnOutboundList ==
    pc = "click" => (view = "outbound" /\ PageOffers = outNodes)

\* The order the page driver is to act in: origin, destination, the switch
\* to one-way exactly when there is no return date, the departure date, the
\* return date exactly when there is one, the submission, the wait.
DriverOrder(ret) ==
    IF ret = None
    THEN <<"from_field", "to_field", "trip_type_button", "one_way_button",
           "departure_field", "departure_done", "search_button", "results_marker">>
    ELSE <<"from_field", "to_field", "departure_field", "departure_done",
           "return_field", "return_done", "search_button", "results_marker">>

\* The sequence a is the start of the sequence b.
IsPrefix(a, b) == Len(a) <= Len(b) /\ a = SubSeq(b, 1, Len(a))

\* C15: in every search the page driver acts in the order above, and no
\* offer is extracted before the wait for the results marker has returned.
C15_DriverActsInOrder ==
    /\ acts # <<>> => IsPrefix(acts, DriverOrder(return_date))
    /\ pc = "wait_results" =>
        acts = SubSeq(DriverOrder(return_date), 1, Len(DriverOrder(return_date)) - 1)
    /\ pc \in {"scrape_departing", "loop_head", "click", "wait_returns",
               "scrape_returns", "next_button", "return"} =>
        acts = DriverOrder(return_date)
    /\ (departing # <<>> \/ returning # <<>>) => acts = DriverOrder(return_date)

\* C15's case: a one-way search has done every step and extracted offers.
C15_Witness ==
    /\ pc = "return"
    /\ return_date = None
    /\ departing # <<>>
    /\ acts = <<"from_field", "to_field", "trip_type_button", "one_way_button",
                "departure_field", "departure_done", "search_button",
                "results_marker">>

\* C16: a search fills no field before the consent step has run on the
\* page of the last navigation to the search URL.
C16_ConsentBeforeEverySearch ==
    pc \in {"timezone", "criteria"} => consent_handled

\* C17: no click of the loop, on an outbound offer or on the advance
\* control, uses a handle that was queried before the last click.
C17_ClicksUseFreshHandles == ~staleClick

\* C17's case: the second iteration has clicked its offer after the first
\* iteration clicked an offer and the advance control.
C17_Witness ==
    /\ pc = "wait_returns"
    /\ index = 1
    /\ failed = {}
    /\ Len(returning) = 1
    /\ view = "returns"
    /\ shown = 1
    /\ ~staleClick

\* The extraction of the node completes.
DoesNotRaise(node) == ~node.raises

\* C18: the extractor returns, in display order, an offer for each node
\* whose extraction did not raise, and nothing for a node whose extraction
\* raised, whatever nodes come before or after it.
C18_RaisingNodeOmittedAlone ==
    pc = "return" =>
        LET kept == SelectSeq(outNodes, DoesNotRaise)
        IN  /\ Len(departing) = Len(kept)
            /\ \A i \in 1..Len(kept) :
                /\ departing[i].airline = FieldAsExtracted(kept[i].airline_element)
                /\ departing[i].duration = FieldAsExtracted(kept[i].duration_element)
                /\ departing[i].price = FieldAsExtracted(kept[i].price_element)
                /\ departing[i].time =
                    IF kept[i].time_element = None THEN NA
                    ELSE convert_to_utc_epoch(parsed_query[3],
                                              kept[i].time_element[1], timezone)

\* C18's case: the first of two nodes raised and the second, which has no
\* price, was still extracted.
C18_Witness ==
    /\ pc = "return"
    /\ Len(outNodes) = 2
    /\ outNodes[1].raises
    /\ outNodes[2] = NoPriceNode
    /\ Len(departing) = 1
    /\ departing[1].price = "N/A"
    /\ departing[1].airline = "AA"

\* C19: what an iteration of the REPL loop has printed when it navigates
\* back is the result of the search of the query of that iteration: every
\* departing flight of that search when the query was valid, and no flight
\* when it was invalid.
C19_PrintsOnlyThisQuerysFlights ==
    pc = "goto" =>
        IF parsed_query = None
        THEN printed = <<>>
        ELSE /\ Len(printed) = Len(departing_flight_data)
             /\ \A i \in 1..Len(printed) :
                    printed[i].departing = departing_flight_data[i]

====
